---- MODULE Spec2Model ----
(***************************************************************************)
(* Model of the assembly site shell (src/site/page.js) and of the button   *)
(* rules of the stylesheet (src/src/buttons.css).                          *)
(*                                                                         *)
(* The stylesheet is modelled rule by rule; the resolved style of an       *)
(* element is computed by the CSS cascade (importance, then specificity,   *)
(* then source order).  The state is one button element (its class list,   *)
(* its disabled attribute, whether the pointer is over it), one pill group *)
(* (a row or column of buttons) and one mounted Page component.            *)
(***************************************************************************)
EXTENDS Integers, Sequences, FiniteSets, TLC

VARIABLES classes, disabled, hover, group, props, output

vars == <<classes, disabled, hover, group, props, output>>

(***************************************************************************)
(* Bounds                                                                  *)
(***************************************************************************)
MaxCenters == 1
MaxChildren == 3

(***************************************************************************)
(* Selectors and rules of buttons.css                                      *)
(***************************************************************************)
\* A compound selector: classes required, classes excluded by :not(),
\* pseudo-classes required.
Sel(has, nots, pseudo) == [has |-> has, nots |-> nots, pseudo |-> pseudo]

\* A rule: its comma-separated selectors, its declarations (longhand
\* property -> value) and the properties declared with !important.
Rule(sels, decl, important) == [sels |-> sels, decl |-> decl, important |-> important]

Corners == {"border-top-left-radius", "border-top-right-radius",
            "border-bottom-right-radius", "border-bottom-left-radius"}

\* The border-radius shorthand with one value sets the four corners.
BorderRadius(r) == [p \in Corners |-> r]

\* box-shadow values of the stylesheet: inset 0 0 0 <width>px <color>, or none.
Inset(w, c) == [inset |-> TRUE, width |-> w, color |-> c]
NoShadow == [inset |-> FALSE, width |-> 0, color |-> "none"]

Btn ==
  Rule({Sel({"btn"}, {}, {})},
       ("display" :> "inline-block") @@
       ("font-weight" :> "bold") @@
       ("background-color" :> "var(--default-primary-interactive-color)") @@
       ("font-size" :> "var(--font-size-s)") @@
       ("color" :> "var(--white)") @@
       BorderRadius(18) @@
       ("padding" :> "6px 18px") @@
       ("text-align" :> "center") @@
       ("transition" :> "background-color, border-color, color"),
       {})

BtnStroke ==
  Rule({Sel({"btn--stroke"}, {}, {})},
       ("background-color" :> "transparent") @@
       ("box-shadow" :> Inset(1, "currentColor")) @@
       ("color" :> "var(--default-primary-interactive-color)"),
       {})

BtnStroke2 ==
  Rule({Sel({"btn--stroke--2"}, {}, {})},
       ("box-shadow" :> Inset(2, "currentColor")),
       {})

BtnS ==
  Rule({Sel({"btn--s"}, {}, {})},
       ("font-size" :> "var(--font-size-xs)") @@
       ("line-height" :> "var(--line-height-s)") @@
       ("padding" :> "3px 12px") @@
       BorderRadius(15),
       {})

\* BtnActive with the .btn.is-active selector left out.
BtnActiveHoverOnly ==
  Rule({Sel({"btn"}, {}, {"hover"})},
       ("background-color" :> "var(--default-primary-interactive-color-dark)"),
       {})

BtnActive ==
  Rule({Sel({"btn"}, {}, {"hover"}), Sel({"btn", "is-active"}, {}, {})},
       ("background-color" :> "var(--default-primary-interactive-color-dark)"),
       {})

\* BtnStrokeActive without its background-color declaration.
BtnStrokeActiveNoBackground ==
  Rule({Sel({"btn--stroke"}, {}, {"hover"}), Sel({"btn--stroke", "is-active"}, {}, {})},
       ("color" :> "var(--default-primary-interactive-color-dark)"),
       {})

BtnStrokeActive ==
  Rule({Sel({"btn--stroke"}, {}, {"hover"}), Sel({"btn--stroke", "is-active"}, {}, {})},
       ("background-color" :> "transparent") @@
       ("color" :> "var(--default-primary-interactive-color-dark)"),
       {})

\* BtnDisabled with the selector :disabled, without the class.
BtnDisabledNoClass ==
  Rule({Sel({}, {}, {"disabled"})},
       ("pointer-events" :> "none") @@
       ("color" :> "var(--inactive-text-color)") @@
       ("background-color" :> "var(--disabled-primary-interactive-color)") @@
       ("box-shadow" :> NoShadow),
       {})

BtnDisabled ==
  Rule({Sel({"btn"}, {}, {"disabled"})},
       ("pointer-events" :> "none") @@
       ("color" :> "var(--inactive-text-color)") @@
       ("background-color" :> "var(--disabled-primary-interactive-color)") @@
       ("box-shadow" :> NoShadow),
       {})

BtnStrokeDisabled ==
  Rule({Sel({"btn", "btn--stroke"}, {}, {"disabled"})},
       ("pointer-events" :> "none") @@
       ("background-color" :> "transparent") @@
       ("box-shadow" :> Inset(1, "var(--inactive-text-color)")) @@
       ("color" :> "var(--inactive-text-color)"),
       {})

\* BtnStroke2Disabled with the selector .btn--stroke--2:disabled, without
\* the extra .btn.
BtnStroke2DisabledNoBtn ==
  Rule({Sel({"btn--stroke--2"}, {}, {"disabled"})},
       ("box-shadow" :> Inset(2, "var(--inactive-text-color)")),
       {})

BtnStroke2Disabled ==
  Rule({Sel({"btn", "btn--stroke--2"}, {}, {"disabled"})},
       ("box-shadow" :> Inset(2, "var(--inactive-text-color)")),
       {})

BtnPillStroke ==
  Rule({Sel({"btn--pill-stroke"}, {}, {})},
       ("position" :> "relative"),
       {})

BtnPillStrokeActive ==
  Rule({Sel({"btn--pill-stroke"}, {}, {"hover"}), Sel({"btn--pill-stroke", "is-active"}, {}, {})},
       ("z-index" :> "2"),
       {})

\* BtnPillHc without !important.
BtnPillHcNotImportant ==
  Rule({Sel({"btn", "btn--pill-hc"}, {}, {})},
       BorderRadius(0),
       {})

BtnPillHc ==
  Rule({Sel({"btn", "btn--pill-hc"}, {}, {})},
       BorderRadius(0),
       Corners)

\* BtnPillHl zeroing the left corners, as BtnPillHr does.
BtnPillHlLeftCorners ==
  Rule({Sel({"btn", "btn--pill-hl"}, {}, {})},
       ("border-top-left-radius" :> 0) @@
       ("border-bottom-left-radius" :> 0),
       {"border-top-left-radius", "border-bottom-left-radius"})

BtnPillHl ==
  Rule({Sel({"btn", "btn--pill-hl"}, {}, {})},
       ("border-top-right-radius" :> 0) @@
       ("border-bottom-right-radius" :> 0),
       {"border-top-right-radius", "border-bottom-right-radius"})

BtnPillHr ==
  Rule({Sel({"btn", "btn--pill-hr"}, {}, {})},
       ("border-top-left-radius" :> 0) @@
       ("border-bottom-left-radius" :> 0),
       {"border-top-left-radius", "border-bottom-left-radius"})

BtnPillHGutter ==
  Rule({Sel({"btn", "btn--pill-hc"}, {"btn--pill-stroke"}, {}),
        Sel({"btn", "btn--pill-hr"}, {"btn--pill-stroke"}, {})},
       ("margin-left" :> 1),
       {})

BtnPillVc ==
  Rule({Sel({"btn", "btn--pill-vc"}, {}, {})},
       BorderRadius(0) @@
       ("display" :> "block") @@ ("width" :> "100%"),
       Corners)

BtnPillVt ==
  Rule({Sel({"btn", "btn--pill-vt"}, {}, {})},
       ("border-bottom-right-radius" :> 0) @@
       ("border-bottom-left-radius" :> 0) @@
       ("display" :> "block") @@ ("width" :> "100%"),
       {"border-bottom-right-radius", "border-bottom-left-radius"})

BtnPillVb ==
  Rule({Sel({"btn", "btn--pill-vb"}, {}, {})},
       ("border-top-right-radius" :> 0) @@
       ("border-top-left-radius" :> 0) @@
       ("display" :> "block") @@ ("width" :> "100%"),
       {"border-top-right-radius", "border-top-left-radius"})

BtnPillVGutter ==
  Rule({Sel({"btn", "btn--pill-vc"}, {"btn--pill-stroke"}, {}),
        Sel({"btn", "btn--pill-vb"}, {"btn--pill-stroke"}, {})},
       ("margin-top" :> 1),
       {})

BtnPillStrokeHc ==
  Rule({Sel({"btn--pill-stroke", "btn--pill-hc"}, {}, {})},
       ("margin-left" :> -1) @@ ("margin-right" :> 0),
       {})

\* BtnPillStrokeHr with the gutter margin instead of the negative one.
BtnPillStrokeHrGutter ==
  Rule({Sel({"btn--pill-stroke", "btn--pill-hr"}, {}, {})},
       ("margin-left" :> 1),
       {})

BtnPillStrokeHr ==
  Rule({Sel({"btn--pill-stroke", "btn--pill-hr"}, {}, {})},
       ("margin-left" :> -1),
       {})

\* BtnPillStrokeVc with the -2px of the comment above the pill rules.
BtnPillStrokeVcTwo ==
  Rule({Sel({"btn--pill-stroke", "btn--pill-vc"}, {}, {})},
       ("margin-top" :> -2) @@ ("margin-bottom" :> 0),
       {})

BtnPillStrokeVc ==
  Rule({Sel({"btn--pill-stroke", "btn--pill-vc"}, {}, {})},
       ("margin-top" :> -1) @@ ("margin-bottom" :> 0),
       {})

BtnPillStrokeVb ==
  Rule({Sel({"btn--pill-stroke", "btn--pill-vb"}, {}, {})},
       ("margin-top" :> -1),
       {})

BtnPillStroke2Hc ==
  Rule({Sel({"btn--pill-stroke", "btn--stroke--2", "btn--pill-hc"}, {}, {})},
       ("margin-left" :> -2) @@ ("margin-right" :> 0),
       {})

BtnPillStroke2Hr ==
  Rule({Sel({"btn--pill-stroke", "btn--stroke--2", "btn--pill-hr"}, {}, {})},
       ("margin-left" :> -2),
       {})

BtnPillStroke2Vc ==
  Rule({Sel({"btn--pill-stroke", "btn--stroke--2", "btn--pill-vc"}, {}, {})},
       ("margin-top" :> -2) @@ ("margin-bottom" :> 0),
       {})

BtnPillStroke2Vb ==
  Rule({Sel({"btn--pill-stroke", "btn--stroke--2", "btn--pill-vb"}, {}, {})},
       ("margin-top" :> -2),
       {})

\* The radius of the round class of the border-radius utilities.
RoundRadius == 4

\* The round class the doc comments of buttons.css refer to: a single-class
\* rule that overrides the default radius of a button ("Less rounded") and
\* against which the pill rules raise their specificity, hence !important.
\* It is placed after the button rules, the order least favourable to them.
Round ==
  Rule({Sel({"round"}, {}, {})},
       BorderRadius(RoundRadius),
       Corners)

\* The rules in source order.
Rules ==
  << Btn, BtnStroke, BtnStroke2, BtnS, BtnActive, BtnStrokeActive,
     BtnDisabled, BtnStrokeDisabled, BtnStroke2Disabled,
     BtnPillStroke, BtnPillStrokeActive,
     BtnPillHc, BtnPillHl, BtnPillHr, BtnPillHGutter,
     BtnPillVc, BtnPillVt, BtnPillVb,
     BtnPillVGutter,
     BtnPillStrokeHc, BtnPillStrokeHr, BtnPillStrokeVc, BtnPillStrokeVb,
     BtnPillStroke2Hc, BtnPillStroke2Hr, BtnPillStroke2Vc, BtnPillStroke2Vb,
     Round >>

(***************************************************************************)
(* The cascade                                                             *)
(***************************************************************************)
\* An element as the selectors see it.
Element(cls, dis, hov) == [classes |-> cls, disabled |-> dis, hover |-> hov]

PseudoClasses(e) ==
  (IF e.disabled THEN {"disabled"} ELSE {}) \cup (IF e.hover THEN {"hover"} ELSE {})

Matches(sel, e) ==
  /\ sel.has \subseteq e.classes
  /\ sel.nots \cap e.classes = {}
  /\ sel.pseudo \subseteq PseudoClasses(e)

\* Classes, pseudo-classes and the arguments of :not() weigh the same; the
\* stylesheet has no id and no type selector.
Specificity(sel) ==
  Cardinality(sel.has) + Cardinality(sel.nots) + Cardinality(sel.pseudo)

Max(S) == CHOOSE x \in S : \A y \in S : y <= x

\* The specificity a rule applies with: that of its most specific matching
\* selector.
RuleSpecificity(r, e) ==
  Max({Specificity(sel) : sel \in {x \in r.sels : Matches(x, e)}})

\* The rules (by position in the sheet) that match e and declare p.
Declaring(e, p) ==
  {i \in DOMAIN Rules :
     /\ p \in DOMAIN Rules[i].decl
     /\ \E sel \in Rules[i].sels : Matches(sel, e)}

\* Declaration i wins over declaration j: importance first, then
\* specificity, then source order.
Beats(i, j, e, p) ==
  LET ii == p \in Rules[i].important
      ij == p \in Rules[j].important
      si == RuleSpecificity(Rules[i], e)
      sj == RuleSpecificity(Rules[j], e)
  IN  \/ ii /\ ~ij
      \/ ii = ij /\ si > sj
      \/ ii = ij /\ si = sj /\ i > j

Winner(e, p) ==
  CHOOSE i \in Declaring(e, p) : \A j \in Declaring(e, p) \ {i} : Beats(i, j, e, p)

\* The value of a property no rule of the sheet declares.
Initial(p) ==
  CASE p = "box-shadow" -> NoShadow
    [] p \in Corners -> 0
    [] p \in {"margin-left", "margin-right", "margin-top", "margin-bottom"} -> 0
    [] p = "background-color" -> "transparent"
    [] p = "pointer-events" -> "auto"
    [] p = "position" -> "static"
    [] p = "display" -> "inline"
    [] p \in {"z-index", "width"} -> "auto"
    [] OTHER -> "inherit"

Properties ==
  UNION {DOMAIN Rules[i].decl : i \in DOMAIN Rules}

Cascaded(e, p) ==
  IF Declaring(e, p) = {} THEN Initial(p) ELSE Rules[Winner(e, p)].decl[p]

\* The resolved style of an element.
Style(e) == [p \in Properties |-> Cascaded(e, p)]

\* The colour the box-shadow is painted with: currentColor is the resolved
\* text colour.
ShadowColor(e) ==
  LET c == Cascaded(e, "box-shadow").color
  IN  IF c = "currentColor" THEN Cascaded(e, "color") ELSE c

(***************************************************************************)
(* The button element                                                      *)
(***************************************************************************)
Positions == {"btn--pill-hl", "btn--pill-hc", "btn--pill-hr",
              "btn--pill-vt", "btn--pill-vc", "btn--pill-vb"}

\* The class names of the stylesheet, and round.
ClassNames ==
  {"btn", "btn--stroke", "btn--stroke--2", "btn--s", "is-active",
   "btn--pill", "btn--pill-stroke", "round"} \cup Positions

button == Element(classes, disabled, hover)

AddClass(c) ==
  /\ c \notin classes
  /\ classes' = classes \cup {c}
  /\ UNCHANGED <<disabled, hover, group, props, output>>

RemoveClass(c) ==
  /\ c \in classes
  /\ classes' = classes \ {c}
  /\ UNCHANGED <<disabled, hover, group, props, output>>

Disable ==
  /\ ~disabled
  /\ disabled' = TRUE
  /\ UNCHANGED <<classes, hover, group, props, output>>

Enable ==
  /\ disabled
  /\ disabled' = FALSE
  /\ UNCHANGED <<classes, hover, group, props, output>>

\* The pointer enters the button: only an element that takes pointer events
\* starts to match :hover.
MouseEnter ==
  /\ ~hover
  /\ Cascaded(button, "pointer-events") # "none"
  /\ hover' = TRUE
  /\ UNCHANGED <<classes, disabled, group, props, output>>

MouseLeave ==
  /\ hover
  /\ hover' = FALSE
  /\ UNCHANGED <<classes, disabled, group, props, output>>

(***************************************************************************)
(* Pill groups                                                             *)
(***************************************************************************)
\* The modifiers a member of a group may carry besides its pill classes.
Modifiers == {"btn--s", "round", "btn--stroke", "is-active"}

PillKinds == {"btn--pill", "btn--pill-stroke"}

Member(kind, position) == {"btn", kind, position}

\* A horizontal group: left, n centers, right.
HorizontalGroup(kind, n) ==
  <<Member(kind, "btn--pill-hl")>> \o
  [i \in 1..n |-> Member(kind, "btn--pill-hc")] \o
  <<Member(kind, "btn--pill-hr")>>

\* A vertical group: top, n centers, bottom.
VerticalGroup(kind, n) ==
  <<Member(kind, "btn--pill-vt")>> \o
  [i \in 1..n |-> Member(kind, "btn--pill-vc")] \o
  <<Member(kind, "btn--pill-vb")>>

BuildHorizontal ==
  \E kind \in PillKinds, n \in 0..MaxCenters :
    /\ group = <<>>
    /\ group' = HorizontalGroup(kind, n)
    /\ UNCHANGED <<classes, disabled, hover, props, output>>

BuildVertical ==
  \E kind \in PillKinds, n \in 0..MaxCenters :
    /\ group = <<>>
    /\ group' = VerticalGroup(kind, n)
    /\ UNCHANGED <<classes, disabled, hover, props, output>>

AddModifier ==
  \E i \in DOMAIN group, c \in Modifiers :
    /\ c \notin group[i]
    /\ group' = [group EXCEPT ![i] = @ \cup {c}]
    /\ UNCHANGED <<classes, disabled, hover, props, output>>

RemoveModifier ==
  \E i \in DOMAIN group, c \in Modifiers :
    /\ c \in group[i]
    /\ group' = [group EXCEPT ![i] = @ \ {c}]
    /\ UNCHANGED <<classes, disabled, hover, props, output>>

ClearGroup ==
  /\ group # <<>>
  /\ group' = <<>>
  /\ UNCHANGED <<classes, disabled, hover, props, output>>

(***************************************************************************)
(* The Page component                                                      *)
(***************************************************************************)
\* React.createElement(type, props, ...children).
CreateElement(type, elprops, children) ==
  [type |-> type, props |-> elprops, children |-> children]

\* A text node among the children handed to the page.
Text(t) == CreateElement("#text", [text |-> t], <<>>)

\* Page.render with the children left out of the content region.
PageRenderNoChildren(p) ==
  CreateElement("div", [className |-> ""],
    << CreateElement("div",
         [className |-> "pt24 pt48-ml viewport-full-mm scroll-auto pl24 pr18 w180-mm fixed-mm top left"],
         << CreateElement("Navigation", [navData |-> p.navData], <<>>) >>),
       CreateElement("div",
         [className |-> "mb24 ml180-mm flex-parent flex-parent--center-main"],
         << CreateElement("div", [className |-> "pl24 pr24 wmax1200 mb48"],
              <<>>) >>) >>)

\* Page.render, from the props of the instance.
PageRender(p) ==
  CreateElement("div", [className |-> ""],
    << CreateElement("div",
         [className |-> "pt24 pt48-ml viewport-full-mm scroll-auto pl24 pr18 w180-mm fixed-mm top left"],
         << CreateElement("Navigation", [navData |-> p.navData], <<>>) >>),
       CreateElement("div",
         [className |-> "mb24 ml180-mm flex-parent flex-parent--center-main"],
         << CreateElement("div", [className |-> "pl24 pr24 wmax1200 mb48"],
              p.children) >>) >>)

\* Page.propTypes: navData is a required object, children a required node.
NavDatas ==
  { [sections |-> <<>>],
    [sections |-> <<"Buttons">>],
    [sections |-> <<"Buttons", "Links">>] }

Texts == {"a", "b", "c"}

SeqsUpTo(S, n) == UNION {[1..k -> S] : k \in 0..n}

ChildrenValues == SeqsUpTo({Text(t) : t \in Texts}, MaxChildren)

PropTypes(p) ==
  /\ p.navData \in NavDatas
  /\ p.children \in ChildrenValues

\* The page is mounted: the instance gets its props and is rendered.
Mount ==
  \E nd \in NavDatas, ch \in ChildrenValues :
    /\ props = <<>>
    /\ props' = <<[navData |-> nd, children |-> ch]>>
    /\ output' = <<PageRender(props'[1])>>
    /\ UNCHANGED <<classes, disabled, hover, group>>

\* The parent passes new props: the page is rendered again.
Update ==
  \E nd \in NavDatas, ch \in ChildrenValues :
    /\ props # <<>>
    /\ props' = <<[navData |-> nd, children |-> ch]>>
    /\ output' = <<PageRender(props'[1])>>
    /\ UNCHANGED <<classes, disabled, hover, group>>

Unmount ==
  /\ props # <<>>
  /\ props' = <<>>
  /\ output' = <<>>
  /\ UNCHANGED <<classes, disabled, hover, group>>

\* The number of elements of a type in a tree.
RECURSIVE CountType(_, _)
CountType(node, type) ==
  LET SumOver[i \in 0..Len(node.children)] ==
        IF i = 0 THEN 0 ELSE SumOver[i - 1] + CountType(node.children[i], type)
  IN  (IF node.type = type THEN 1 ELSE 0) + SumOver[Len(node.children)]

(***************************************************************************)
(* Specifications                                                          *)
(***************************************************************************)
Init ==
  /\ classes = {"btn"}
  /\ disabled = FALSE
  /\ hover = FALSE
  /\ group = <<>>
  /\ props = <<>>
  /\ output = <<>>

Next ==
  \/ \E c \in ClassNames : AddClass(c)
  \/ \E c \in ClassNames : RemoveClass(c)
  \/ Disable
  \/ Enable
  \/ MouseEnter
  \/ MouseLeave

Spec == Init /\ [][Next]_vars

NextGroup ==
  \/ BuildHorizontal
  \/ BuildVertical
  \/ AddModifier
  \/ RemoveModifier
  \/ ClearGroup

SpecGroup == Init /\ [][NextGroup]_vars

NextPage ==
  \/ Mount
  \/ Update
  \/ Unmount

SpecPage == Init /\ [][NextPage]_vars

(***************************************************************************)
(* Properties                                                              *)
(***************************************************************************)
White == "var(--white)"
Primary == "var(--default-primary-interactive-color)"
PrimaryDark == "var(--default-primary-interactive-color-dark)"
DisabledPrimary == "var(--disabled-primary-interactive-color)"
InactiveText == "var(--inactive-text-color)"

\* C1: a rendered page is a single root holding exactly two regions, the
\* navigation region first and the content region second; the navigation
\* region holds exactly one Navigation element whose navData is the page's
\* navData, the content region holds the page's children, and the whole
\* tree has one Navigation and each child once.
PageRendersTwoRegions ==
  output # <<>> =>
    LET root == output[1]
        p == props[1]
    IN  /\ Len(output) = 1
        /\ PropTypes(p)
        /\ root.type = "div"
        /\ Len(root.children) = 2
        /\ root.children[1].type = "div"
        /\ root.children[1].children =
             <<CreateElement("Navigation", [navData |-> p.navData], <<>>)>>
        /\ root.children[2].type = "div"
        /\ Len(root.children[2].children) = 1
        /\ root.children[2].children[1].type = "div"
        /\ root.children[2].children[1].children = p.children
        /\ CountType(root, "Navigation") = 1
        /\ CountType(root, "#text") = Len(p.children)
        /\ CountType(root, "div") = 4

PageRenderedWithChildren ==
  /\ output # <<>>
  /\ Len(props[1].children) >= 2
  /\ props[1].navData.sections # <<>>

\* C2: a button with btn, btn--pill-stroke and btn--pill-hr resolves
\* margin-left to a negative value; with btn and btn--pill-hr but without
\* btn--pill-stroke it resolves margin-left to 1px.
PillHrMarginSign ==
  {"btn", "btn--pill-hr"} \subseteq classes =>
    IF "btn--pill-stroke" \in classes
    THEN Cascaded(button, "margin-left") < 0
    ELSE Cascaded(button, "margin-left") = 1

PillHrStrokeReached ==
  /\ {"btn", "btn--pill-hr", "btn--pill-stroke", "btn--stroke"} \subseteq classes
  /\ "btn--stroke--2" \notin classes
  /\ Cascaded(button, "margin-left") = -1

PillHcZeroRadius ==
  {"btn", "btn--pill-hc"} \subseteq classes =>
    \A c \in Corners : Cascaded(button, c) = 0

PillHcWithRadiusClasses ==
  /\ {"btn", "btn--pill-hc", "btn--s", "round"} \subseteq classes
  /\ disabled
  /\ Cascaded(button, "border-top-left-radius") = 0

\* C5: without btn--stroke, the resolved style with btn--stroke--2 equals
\* the resolved style without it, enabled or disabled.
Stroke2NoEffectWithoutStroke ==
  "btn--stroke" \notin classes =>
    Style(Element(classes \cup {"btn--stroke--2"}, disabled, hover)) =
    Style(Element(classes \ {"btn--stroke--2"}, disabled, hover))

\* C6: a button with btn and btn--stroke has an inset box-shadow whose
\* colour is the resolved text colour, and a transparent background.
StrokeColorsMatch ==
  {"btn", "btn--stroke"} \subseteq classes =>
    /\ Cascaded(button, "box-shadow").inset
    /\ ShadowColor(button) = Cascaded(button, "color")
    /\ Cascaded(button, "background-color") = "transparent"

StrokeDisabledActiveReached ==
  /\ {"btn", "btn--stroke", "is-active"} \subseteq classes
  /\ disabled
  /\ hover
  /\ ShadowColor(button) = InactiveText

\* C7: an enabled button with btn and is-active has the active style, which
\* is the style of the hovered button without is-active: filled, the dark
\* background and the text colour it has without is-active; stroke, a
\* transparent background and the dark colour for text and border.
ActiveIsDarker ==
  (~disabled /\ {"btn", "is-active"} \subseteq classes) =>
    LET inactive == classes \ {"is-active"}
    IN  /\ Style(Element(classes, FALSE, FALSE)) = Style(Element(inactive, FALSE, TRUE))
        /\ "btn--stroke" \notin classes =>
             /\ Cascaded(button, "background-color") = PrimaryDark
             /\ Cascaded(button, "color") = Cascaded(Element(inactive, FALSE, FALSE), "color")
             /\ Cascaded(button, "color") = White
        /\ "btn--stroke" \in classes =>
             /\ Cascaded(button, "background-color") = "transparent"
             /\ Cascaded(button, "color") = PrimaryDark
             /\ ShadowColor(button) = PrimaryDark

ActiveStrokeReached ==
  /\ ~disabled
  /\ ~hover
  /\ {"btn", "btn--stroke", "is-active"} \subseteq classes
  /\ Cascaded(button, "color") = PrimaryDark

\* C8: a disabled button with btn has the inactive text colour, takes no
\* pointer events, and has the disabled background (filled) or a
\* transparent one (btn--stroke), with or without is-active and hover.
DisabledDominates ==
  (disabled /\ "btn" \in classes) =>
    /\ Cascaded(button, "color") = InactiveText
    /\ Cascaded(button, "pointer-events") = "none"
    /\ Cascaded(button, "background-color") =
         (IF "btn--stroke" \in classes THEN "transparent" ELSE DisabledPrimary)

DisabledActiveFilledReached ==
  /\ disabled
  /\ hover
  /\ {"btn", "is-active"} \subseteq classes
  /\ "btn--stroke" \notin classes
  /\ Cascaded(button, "background-color") = DisabledPrimary

\* C9: on a button with btn, margin-left (positions hc, hr) and margin-top
\* (positions vc, vb) are 1px without btn--pill-stroke, -1px with it and
\* -2px with it and btn--stroke--2; a button in neither position (hl, vt
\* alone) gets no such margin from the sheet.
PillMargin(position) ==
  IF position \cap classes = {} THEN 0
  ELSE IF "btn--pill-stroke" \notin classes THEN 1
  ELSE IF "btn--stroke--2" \in classes THEN -2 ELSE -1

Horizontal == "btn--pill-hl" \in group[1]

FacingCorners(i) ==
  (IF i > 1
   THEN (IF Horizontal
         THEN {"border-top-left-radius", "border-bottom-left-radius"}
         ELSE {"border-top-left-radius", "border-top-right-radius"})
   ELSE {})
  \cup
  (IF i < Len(group)
   THEN (IF Horizontal
         THEN {"border-top-right-radius", "border-bottom-right-radius"}
         ELSE {"border-bottom-left-radius", "border-bottom-right-radius"})
   ELSE {})

member(i) == Element(group[i], FALSE, FALSE)

BaseRadius(i) == IF "btn--s" \in group[i] THEN 15 ELSE 18

\* C10 as stated: in a pill group every corner facing a neighbour has
\* radius 0 and every other corner has the base radius of its button (18px,
\* 15px with btn--s), whatever other classes (round included) the members
\* carry.
GroupOuterCornersKeepBase ==
  \A i \in DOMAIN group :
    \A c \in Corners :
      Cascaded(member(i), c) = (IF c \in FacingCorners(i) THEN 0 ELSE BaseRadius(i))

\* C10 amended: every corner facing a neighbour has radius 0 whatever the
\* members carry; every other corner of a member without round has the base
\* radius of its button (18px, 15px with btn--s).
GroupCorners ==
  \A i \in DOMAIN group :
    \A c \in Corners :
      IF c \in FacingCorners(i)
      THEN Cascaded(member(i), c) = 0
      ELSE "round" \notin group[i] => Cascaded(member(i), c) = BaseRadius(i)

GroupWithRoundAndSmall ==
  /\ Len(group) = 3
  /\ "round" \in group[2]
  /\ "round" \in group[1]
  /\ "btn--s" \in group[3]
  /\ "round" \notin group[3]
  /\ Cascaded(member(3), "border-bottom-right-radius") = 15

====
